---- MODULE Spec2Model ----
(***************************************************************************)
(* A model of play_and_record.py: get_wavfiles (the directory walk and the *)
(* pairing of input and output paths), play_and_rec (read, normalise, pad, *)
(* play and record, trim the latency, create the output directory, write,  *)
(* plot, return) and the batch loop of the __main__ block.                 *)
(*                                                                         *)
(* A Python str is a sequence of one-character strings.  A sample is an    *)
(* integer (the input file's values, and the recording in units of 2^-15)  *)
(* or, after the division of the normalisation, an exact rational          *)
(* [num, den] or the non-finite result of a division by zero.              *)
(***************************************************************************)
EXTENDS Integers, Sequences, FiniteSets, TLC

VARIABLES
    \* the file system
    treeDirs,       \* directories under input_dir: relative paths, each a sequence of names
    treeFiles,      \* files under input_dir: <<relative directory, file name>>
    rev,            \* the order in which the file system lists a directory
    wavstore,       \* the content of each readable input WAV file, by path
    fsdirs,         \* the directories that exist besides the input tree (component sequences)
    fsfiles,        \* the files written so far (component sequences)
    \* get_wavfiles and the __main__ block
    input_dir, output_dir, wavfiles, pcm, idx, slept,
    \* the calls a client of play_and_rec still makes
    script,
    \* the frame of the running play_and_rec call
    pc, args, fs, pb_samples, pb_dtype, pb_samples_padded, rec_samples, rec_dtype,
    output_path, ret, err,
    \* what the collaborators were handed
    played,         \* the duplex calls: the buffer and rate passed, the raw recording returned
    wrote,          \* the wavfile.write calls
    plotted         \* the plot_signal calls

fsVars    == <<treeDirs, treeFiles, rev, wavstore, fsdirs, fsfiles>>
mainVars  == <<input_dir, output_dir, wavfiles, pcm, idx, slept>>
frameVars == <<pc, args, fs, pb_samples, pb_dtype, pb_samples_padded, rec_samples,
               rec_dtype, output_path, ret, err>>
histVars  == <<played, wrote, plotted>>
vars      == <<fsVars, mainVars, script, frameVars, histVars>>

----------------------------------------------------------------------------
(* Bounds of the model.                                                    *)

MaxDirs  == 2       \* directories under input_dir
MaxFiles == 2       \* files under input_dir
MaxLen   == 2       \* samples in an input file
MaxFs    == 3       \* sampling rate of an input file
MaxCalls == 2       \* calls of play_and_rec a client makes in a row

----------------------------------------------------------------------------
(* Python's str and os.path operations.                                    *)

SLASH == "/"

\* str.endswith
EndsWith(s, suf) ==
    /\ Len(s) >= Len(suf)
    /\ SubSeq(s, Len(s) - Len(suf) + 1, Len(s)) = suf

\* s[i:] starts with old (i is 1-based)
MatchAt(s, old, i) ==
    /\ i + Len(old) - 1 <= Len(s)
    /\ SubSeq(s, i, i + Len(old) - 1) = old

\* str.replace(old, new) for a non-empty old: every non-overlapping occurrence,
\* leftmost first
RECURSIVE ReplaceFrom(_, _, _, _)
ReplaceFrom(s, old, new, i) ==
    IF i > Len(s) THEN <<>>
    ELSE IF MatchAt(s, old, i)
         THEN new \o ReplaceFrom(s, old, new, i + Len(old))
         ELSE <<s[i]>> \o ReplaceFrom(s, old, new, i + 1)

Replace(s, old, new) == ReplaceFrom(s, old, new, 1)

\* posixpath.join of two parts
Join(a, b) ==
    IF b # <<>> /\ b[1] = SLASH THEN b
    ELSE IF a = <<>> \/ a[Len(a)] = SLASH THEN a \o b
    ELSE a \o <<SLASH>> \o b

\* the index of the last "/" of s, 0 when it has none (str.rfind, 1-based)
RECURSIVE RFindSlash(_, _)
RFindSlash(s, i) ==
    IF i = 0 THEN 0
    ELSE IF s[i] = SLASH THEN i
    ELSE RFindSlash(s, i - 1)

RECURSIVE RStripSlash(_)
RStripSlash(s) ==
    IF s # <<>> /\ s[Len(s)] = SLASH THEN RStripSlash(SubSeq(s, 1, Len(s) - 1)) ELSE s

\* posixpath.dirname
Dirname(p) ==
    LET head == SubSeq(p, 1, RFindSlash(p, Len(p)))
    IN  IF RStripSlash(head) # <<>> THEN RStripSlash(head) ELSE head

\* the names of a path, between its slashes
RECURSIVE Components(_)
Components(p) ==
    IF p = <<>> THEN <<>>
    ELSE IF p[1] = SLASH THEN Components(Tail(p))
    ELSE LET rest == Tail(p)
             nxt  == Components(rest)
         IN  IF rest = <<>> \/ rest[1] = SLASH
             THEN <<<<p[1]>>>> \o nxt
             ELSE <<<<p[1]>> \o nxt[1]>> \o Tail(nxt)

----------------------------------------------------------------------------
(* The input tree and os.walk.                                             *)

DirNames  == {<<"a">>, <<"b">>}
FileNames == {<<"x", ".", "w", "a", "v">>, <<"y", ".", "W", "A", "V">>,
              <<"z", ".", "W", "a", "v">>, <<"n", ".", "t", "x", "t">>,
              <<"w", ".", "w", "a", "v", "e">>}

\* the order of a directory listing is the file system's: here one fixed
\* order of the names, or its reverse
NameOrder == <<<<"a">>, <<"b">>,
               <<"n", ".", "t", "x", "t">>, <<"w", ".", "w", "a", "v", "e">>,
               <<"x", ".", "w", "a", "v">>, <<"y", ".", "W", "A", "V">>,
               <<"z", ".", "W", "a", "v">>>>

Rank(n) == CHOOSE i \in 1..Len(NameOrder) : NameOrder[i] = n

RECURSIVE Listing(_, _)
Listing(S, r) ==
    IF S = {} THEN <<>>
    ELSE LET n == CHOOSE x \in S : \A y \in S :
                      IF r THEN Rank(y) <= Rank(x) ELSE Rank(x) <= Rank(y)
         IN  <<n>> \o Listing(S \ {n}, r)

SubdirsOf(rel)   == {d \in DirNames : Append(rel, d) \in treeDirs}
FilenamesOf(rel) == {f \in FileNames : <<rel, f>> \in treeFiles}

\* os.walk(top), top-down: one (root, filenames) entry per directory, a
\* directory before its subdirectories
RECURSIVE Walk(_, _)
RECURSIVE WalkEach(_, _, _)
WalkEach(root, rel, ds) ==
    IF ds = <<>> THEN <<>>
    ELSE Walk(Join(root, ds[1]), Append(rel, ds[1])) \o WalkEach(root, rel, Tail(ds))

Walk(root, rel) ==
    <<[root |-> root, filenames |-> Listing(FilenamesOf(rel), rev)]>>
    \o WalkEach(root, rel, Listing(SubdirsOf(rel), rev))

WAV_UPPER == <<".", "W", "A", "V">>
WAV_LOWER == <<".", "w", "a", "v">>

IsWavTitleCaseToo(f) ==
    \/ EndsWith(f, WAV_UPPER) \/ EndsWith(f, WAV_LOWER)
    \/ EndsWith(f, <<".", "W", "a", "v">>)

\* line 69: f.endswith(".WAV") or f.endswith(".wav")
IsWav(f) == EndsWith(f, WAV_UPPER) \/ EndsWith(f, WAV_LOWER)

\* lines 69-74: the pairs of one walk entry
RECURSIVE PairsOf(_, _, _, _)
PairsOf(root, filenames, ind, outd) ==
    IF filenames = <<>> THEN <<>>
    ELSE LET filename    == filenames[1]
             in_file     == Join(root, filename)
             out_path    == Replace(root, ind, outd)
             out_file    == Join(out_path, filename)
             rest        == PairsOf(root, Tail(filenames), ind, outd)
         IN  IF IsWav(filename) THEN <<<<in_file, out_file>>>> \o rest ELSE rest

RECURSIVE PairsOfAll(_, _, _)
PairsOfAll(entries, ind, outd) ==
    IF entries = <<>> THEN <<>>
    ELSE PairsOf(entries[1].root, entries[1].filenames, ind, outd)
         \o PairsOfAll(Tail(entries), ind, outd)

\* get_wavfiles(input_dir, output_dir)
get_wavfiles(ind, outd) == PairsOfAll(Walk(ind, <<>>), ind, outd)

\* the call of get_wavfiles: it returns the list and touches nothing else
GetWavfiles ==
    /\ pcm = "start"
    /\ wavfiles' = get_wavfiles(input_dir, output_dir)
    /\ pcm' = "walked"
    /\ UNCHANGED <<fsVars, input_dir, output_dir, idx, slept, script, frameVars, histVars>>

----------------------------------------------------------------------------
(* Samples.  A sample is the rational num/den with den > 0; den = 0 is a   *)
(* non-finite float: 1/0 is inf, -1/0 is -inf and 0/0 is nan.              *)

Whole(n) == [num |-> n, den |-> 1]
Zero    == Whole(0)
Abs(n)  == IF n < 0 THEN -n ELSE n
Sign(n) == IF n < 0 THEN -1 ELSE IF n > 0 THEN 1 ELSE 0

\* the integer x of the input divided by the float 4m/5 (0.8 * m)
DivBy08(x, m) ==
    IF m = 0 THEN [num |-> Sign(x), den |-> 0]
    ELSE [num |-> 5 * x * Sign(m), den |-> 4 * Abs(m)]

\* ndarray.max() of a non-empty array of integers
RECURSIVE Max(_)
Max(xs) ==
    IF Len(xs) = 1 THEN xs[1].num
    ELSE LET m == Max(Tail(xs)) IN IF xs[1].num > m THEN xs[1].num ELSE m

\* line 28: pb_samples / (0.8 * pb_samples.max())
Normalised(xs) == [i \in 1..Len(xs) |-> DivBy08(xs[i].num, Max(xs))]

\* Python's round() of 0.5 * n: to the nearest integer, a half to the even one
RoundHalfUp(n) == (n + 1) \div 2

RoundHalf(n) ==
    LET q == n \div 2
    IN  IF n % 2 = 0 THEN q ELSE IF q % 2 = 0 THEN q ELSE q + 1

\* line 29: np.pad(x, (0, n), mode='constant', constant_values=0)
Padded(xs, n) == xs \o [i \in 1..n |-> Zero]

\* line 32: eps = 3 * 1.0 / 2**15
EPS_NUM  == 3
EPS_BITS == 15
EPS      == [num |-> EPS_NUM, den |-> 2 ^ EPS_BITS]

AboveOrAtEps(x) == Abs(x.num) * EPS.den >= EPS.num * x.den /\ ~(x.num = 0 /\ x.den = 0)

\* line 33: abs(x) > eps; a comparison with nan is False
AboveEps(x) == Abs(x.num) * EPS.den > EPS.num * x.den

\* line 33: np.argmax of the booleans: the first True, 0 when none is (0-based)
RECURSIVE ArgMaxAbove(_, _)
ArgMaxAbove(xs, i) ==
    IF i > Len(xs) THEN 0
    ELSE IF AboveEps(xs[i]) THEN i - 1
    ELSE ArgMaxAbove(xs, i + 1)

\* line 34: x[ind:]
SliceFrom(xs, ind) == SubSeq(xs, ind + 1, Len(xs))

\* what the sound device records, in units of 2^-15
RecVals == {-4, 0, 3}
RecSample(v) == [num |-> v, den |-> 2 ^ EPS_BITS]
Recordings(n) == [1..n -> {RecSample(v) : v \in RecVals}]

----------------------------------------------------------------------------
(* The file system under the output paths.                                 *)

Prefixes(cs) == {SubSeq(cs, 1, n) : n \in 1..Len(cs)}

\* os.path.isdir: the empty path names nothing
IsDir(p) == p # <<>> /\ (Components(p) = <<>> \/ Components(p) \in fsdirs)

\* os.makedirs(p) raises when p is empty or a file is in the way
MakedirsError(p) ==
    IF p = <<>> THEN "FileNotFoundError"
    ELSE IF Prefixes(Components(p)) \cap fsfiles # {} THEN "FileExistsError"
    ELSE "none"

----------------------------------------------------------------------------
(* play_and_rec, one action per statement.                                 *)

NoError == [type |-> "none", line |-> 0]

\* an exception leaves play_and_rec from the line that raised it
Raise(e, line) ==
    /\ pc' = "error"
    /\ err' = [type |-> e, line |-> line]

\* line 26: (fs, pb_samples) = read(pb_wav_fname)
Read ==
    /\ pc = "l26"
    /\ IF args.pb_wav_fname \in DOMAIN wavstore
       THEN /\ fs' = wavstore[args.pb_wav_fname].fs
            /\ pb_samples' = wavstore[args.pb_wav_fname].samples
            /\ pb_dtype' = wavstore[args.pb_wav_fname].dtype
            /\ pc' = "l27"
            /\ UNCHANGED err
       ELSE /\ Raise("FileNotFoundError", 26)
            /\ UNCHANGED <<fs, pb_samples, pb_dtype>>
    /\ UNCHANGED <<fsVars, mainVars, script, args, pb_samples_padded, rec_samples,
                   rec_dtype, output_path, ret, histVars>>

\* lines 27-28: max() of an empty array raises ValueError
Normalise ==
    /\ pc = "l27"
    /\ IF ~args.normalise
       THEN /\ pc' = "l29"
            /\ UNCHANGED <<pb_samples, pb_dtype, err>>
       ELSE IF pb_samples = <<>>
       THEN /\ Raise("ValueError", 28)
            /\ UNCHANGED <<pb_samples, pb_dtype>>
       ELSE /\ pb_samples' = Normalised(pb_samples)
            /\ pb_dtype' = "float64"
            /\ pc' = "l29"
            /\ UNCHANGED err
    /\ UNCHANGED <<fsVars, mainVars, script, args, fs, pb_samples_padded, rec_samples,
                   rec_dtype, output_path, ret, histVars>>

\* line 29
Pad ==
    /\ pc = "l29"
    /\ pb_samples_padded' = Padded(pb_samples, RoundHalf(fs))
    /\ pc' = "l30"
    /\ UNCHANGED <<fsVars, mainVars, script, args, fs, pb_samples, pb_dtype, rec_samples,
                   rec_dtype, output_path, ret, err, histVars>>

\* line 30: the device records one float32 frame per frame played, or fails
PlayRec ==
    /\ pc = "l30"
    /\ \/ \E r \in Recordings(Len(pb_samples_padded)) :
            /\ rec_samples' = r
            /\ rec_dtype' = "float32"
            /\ played' = Append(played, [data |-> pb_samples_padded, fs |-> fs,
                                         channels |-> 1, recorded |-> r])
            /\ pc' = "l31"
            /\ UNCHANGED err
       \/ /\ Raise("PortAudioError", 30)
          /\ UNCHANGED <<rec_samples, rec_dtype, played>>
    /\ UNCHANGED <<fsVars, mainVars, script, args, fs, pb_samples, pb_dtype,
                   pb_samples_padded, output_path, ret, wrote, plotted>>

\* lines 31-34
Trim ==
    /\ pc = "l31"
    /\ rec_samples' = IF args.rm_latency
                      THEN SliceFrom(rec_samples, ArgMaxAbove(rec_samples, 1))
                      ELSE rec_samples
    /\ pc' = "l35"
    /\ UNCHANGED <<fsVars, mainVars, script, args, fs, pb_samples, pb_dtype,
                   pb_samples_padded, rec_dtype, output_path, ret, err, histVars>>

\* lines 35-37
MakeDirs ==
    /\ pc = "l35"
    /\ output_path' = Dirname(args.rec_wav_fname)
    /\ IF IsDir(output_path')
       THEN /\ pc' = "l38"
            /\ UNCHANGED <<fsdirs, err>>
       ELSE IF MakedirsError(output_path') # "none"
       THEN /\ Raise(MakedirsError(output_path'), 37)
            /\ UNCHANGED fsdirs
       ELSE /\ fsdirs' = fsdirs \cup Prefixes(Components(output_path'))
            /\ pc' = "l38"
            /\ UNCHANGED err
    /\ UNCHANGED <<treeDirs, treeFiles, rev, wavstore, fsfiles, mainVars, script, args, fs,
                   pb_samples, pb_dtype, pb_samples_padded, rec_samples, rec_dtype, ret,
                   histVars>>

\* line 38: write(rec_wav_fname, fs, rec_samples); the file system may refuse
Write ==
    /\ pc = "l38"
    /\ \/ /\ Components(args.rec_wav_fname) \notin fsdirs
          /\ fsfiles' = fsfiles \cup {Components(args.rec_wav_fname)}
          /\ wrote' = Append(wrote, [filename |-> args.rec_wav_fname, rate |-> fs,
                                     data |-> rec_samples, dtype |-> rec_dtype])
          /\ pc' = "l40"
          /\ UNCHANGED err
       \/ /\ Raise("OSError", 38)
          /\ UNCHANGED <<fsfiles, wrote>>
    /\ UNCHANGED <<treeDirs, treeFiles, rev, wavstore, fsdirs, mainVars, script, args, fs,
                   pb_samples, pb_dtype, pb_samples_padded, rec_samples, rec_dtype,
                   output_path, ret, played, plotted>>

\* lines 40-42 and 46-55: each plot blocks until its window is closed
Plot ==
    /\ pc = "l40"
    /\ plotted' = IF args.show_plots
                  THEN plotted \o <<[x |-> pb_samples, fs |-> fs, title |-> "Original",
                                     fig_num |-> 1],
                                    [x |-> rec_samples, fs |-> fs, title |-> "Recorded",
                                     fig_num |-> 2]>>
                  ELSE plotted
    /\ pc' = "l43"
    /\ UNCHANGED <<fsVars, mainVars, script, args, fs, pb_samples, pb_dtype,
                   pb_samples_padded, rec_samples, rec_dtype, output_path, ret, err,
                   played, wrote>>

\* line 43: return rec_samples, pb_samples, fs
ReturnValue == <<rec_samples, pb_samples, fs>>

Return ==
    /\ pc = "l43"
    /\ ret' = ReturnValue
    /\ pc' = "returned"
    /\ UNCHANGED <<fsVars, mainVars, script, args, fs, pb_samples, pb_dtype,
                   pb_samples_padded, rec_samples, rec_dtype, output_path, err, histVars>>

\* a call starts with fresh locals, at line 26
NewFrame ==
    /\ pc' = "l26" /\ err' = NoError /\ fs' = 0 /\ pb_samples' = <<>> /\ pb_dtype' = "none"
    /\ pb_samples_padded' = <<>> /\ rec_samples' = <<>> /\ rec_dtype' = "none"
    /\ output_path' = <<>> /\ ret' = <<>>

\* a client calls play_and_rec with the next arguments of its script
Call ==
    /\ pcm = "client"
    /\ pc \in {"idle", "returned", "error"}
    /\ script # <<>>
    /\ args' = Head(script)
    /\ script' = Tail(script)
    /\ NewFrame
    /\ UNCHANGED <<fsVars, mainVars, histVars>>

PlayAndRec == Read \/ Normalise \/ Pad \/ PlayRec \/ Trim \/ MakeDirs \/ Write \/ Plot \/ Return

----------------------------------------------------------------------------
(* Input trees.                                                            *)

RECURSIVE KSubsets(_, _)
KSubsets(S, k) ==
    IF k = 0 THEN {{}}
    ELSE LET smaller == KSubsets(S, k - 1)
         IN  smaller \cup {T \cup {x} : T \in smaller, x \in S}

RelPaths == UNION {[1..n -> DirNames] : n \in 1..MaxDirs}

PrefixClosed(D) ==
    \A d \in D : Len(d) > 1 => SubSeq(d, 1, Len(d) - 1) \in D

DirSets == {D \in KSubsets(RelPaths, MaxDirs) : PrefixClosed(D)}

FileSets(D) == KSubsets((D \cup {<<>>}) \X FileNames, MaxFiles)

NoFrame ==
    /\ pc = "idle" /\ args = <<>> /\ fs = 0 /\ pb_samples = <<>> /\ pb_dtype = "none"
    /\ pb_samples_padded = <<>> /\ rec_samples = <<>> /\ rec_dtype = "none"
    /\ output_path = <<>> /\ ret = <<>> /\ err = NoError
    /\ played = <<>> /\ wrote = <<>> /\ plotted = <<>>

\* a client calls get_wavfiles on some tree
WalkInit ==
    /\ treeDirs \in DirSets
    /\ treeFiles \in FileSets(treeDirs)
    /\ rev \in BOOLEAN
    /\ wavstore = <<>>
    /\ fsdirs \in {{}, {<<<<"o">>>>}}
    /\ fsfiles = {}
    /\ input_dir \in {<<"a">>, <<"i">>}
    /\ output_dir = <<"o">>
    /\ wavfiles = <<>> /\ pcm = "start" /\ idx = 0 /\ slept = 0
    /\ script = <<>>
    /\ NoFrame

WalkNext == GetWavfiles

SpecWalk == WalkInit /\ [][WalkNext]_vars

----------------------------------------------------------------------------
(* The __main__ block, lines 78-84.                                        *)

INPUT_DB  == <<"i", "n", "p", "u", "t", "_", "d", "b", "_", "s", "m", "a", "l", "l">>
OUTPUT_DB == <<"o", "u", "t", "p", "u", "t", "_", "d", "b", "_", "s", "m", "a", "l", "l">>

\* line 82: the for statement takes the next pair, or the loop ends
For ==
    /\ pcm = "walked"
    /\ pcm' = IF idx < Len(wavfiles) THEN "l83" ELSE "done"
    /\ UNCHANGED <<fsVars, input_dir, output_dir, wavfiles, idx, slept, script, frameVars,
                   histVars>>

\* line 83: time.sleep(0.5)
Sleep ==
    /\ pcm = "l83"
    /\ slept' = slept + 1
    /\ pcm' = "l84"
    /\ UNCHANGED <<fsVars, input_dir, output_dir, wavfiles, idx, script, frameVars, histVars>>

\* line 84: play_and_rec(pb, rec, show_plots=True)
MainCall ==
    /\ pcm = "l84"
    /\ args' = [pb_wav_fname |-> wavfiles[idx + 1][1], rec_wav_fname |-> wavfiles[idx + 1][2],
                normalise |-> TRUE, rm_latency |-> TRUE, show_plots |-> TRUE]
    /\ NewFrame
    /\ pcm' = "in_call"
    /\ UNCHANGED <<fsVars, input_dir, output_dir, wavfiles, idx, slept, script, histVars>>

\* the call returned: back to the for statement
Returned ==
    /\ pcm = "in_call"
    /\ pc = "returned"
    /\ idx' = idx + 1
    /\ pc' = "idle"
    /\ pcm' = "walked"
    /\ UNCHANGED <<fsVars, input_dir, output_dir, wavfiles, slept, script, args, fs,
                   pb_samples, pb_dtype, pb_samples_padded, rec_samples, rec_dtype,
                   output_path, ret, err, histVars>>

SkipFailed ==
    /\ pcm = "in_call"
    /\ pc = "error"
    /\ idx' = idx + 1
    /\ pc' = "idle"
    /\ pcm' = "walked"
    /\ UNCHANGED <<fsVars, input_dir, output_dir, wavfiles, slept, script, args, fs,
                   pb_samples, pb_dtype, pb_samples_padded, rec_samples, rec_dtype,
                   output_path, ret, err, histVars>>

\* the call raised: nothing catches the exception and the process ends
Abort ==
    /\ pcm = "in_call"
    /\ pc = "error"
    /\ pcm' = "aborted"
    /\ UNCHANGED <<fsVars, input_dir, output_dir, wavfiles, idx, slept, script, frameVars,
                   histVars>>

----------------------------------------------------------------------------
(* Initial states.                                                         *)

P_WAV   == <<"p", ".", "w", "a", "v">>
R_WAV   == <<"r", ".", "w", "a", "v">>
D_R_WAV == <<"d", "/", "r", ".", "w", "a", "v">>
D_S_WAV == <<"d", "/", "s", ".", "w", "a", "v">>
DE_R_WAV == <<"d", "/", "e", "/", "r", ".", "w", "a", "v">>

SampleVals == {-2, 0, 1}
Buffers(n) == UNION {[1..k -> {Whole(v) : v \in SampleVals}] : k \in 0..n}
Dtypes     == {"uint8", "int16", "int32", "float32"}

NoTree == treeDirs = {} /\ treeFiles = {} /\ rev = FALSE
NoMain == input_dir = <<>> /\ output_dir = <<>> /\ wavfiles = <<>> /\ idx = 0 /\ slept = 0

\* a client calls play_and_rec once, on some input file, with some flags
SignalInit ==
    /\ NoTree /\ NoMain /\ NoFrame
    /\ pcm = "client"
    /\ wavstore \in {<<>>} \cup
         {P_WAV :> [fs |-> f, dtype |-> "int16", samples |-> b] :
              f \in 1..MaxFs, b \in Buffers(MaxLen)}
    /\ fsdirs = {} /\ fsfiles = {}
    /\ script \in {<<[pb_wav_fname |-> P_WAV, rec_wav_fname |-> D_R_WAV,
                      normalise |-> n, rm_latency |-> l, show_plots |-> s]>> :
                       n \in BOOLEAN, l \in BOOLEAN, s \in BOOLEAN}

\* a client calls play_and_rec up to MaxCalls times, on some output paths
WriterInit ==
    /\ NoTree /\ NoMain /\ NoFrame
    /\ pcm = "client"
    /\ wavstore \in {P_WAV :> [fs |-> 1, dtype |-> d, samples |-> <<Whole(1)>>] :
                         d \in Dtypes}
    /\ fsdirs \in {{}, {<<<<"d">>>>}} /\ fsfiles = {}
    /\ \E n \in BOOLEAN, l \in BOOLEAN :
         script \in UNION {[1..k -> {[pb_wav_fname |-> P_WAV, rec_wav_fname |-> r,
                                      normalise |-> n, rm_latency |-> l,
                                      show_plots |-> FALSE] :
                                       r \in {R_WAV, D_R_WAV, D_S_WAV, DE_R_WAV}}] :
                           k \in 1..MaxCalls}

\* the program is run as a script on some tree under input_db_small
MainFileNames == {<<"x", ".", "w", "a", "v">>, <<"y", ".", "W", "A", "V">>,
                  <<"n", ".", "t", "x", "t">>}

InFiles == {Join(IF f[1] = <<>> THEN INPUT_DB ELSE Join(INPUT_DB, f[1][1]), f[2]) :
                f \in treeFiles}

MainInit ==
    /\ treeDirs \in SUBSET {<<<<"a">>>>}
    /\ treeFiles \in KSubsets((treeDirs \cup {<<>>}) \X MainFileNames, MaxFiles)
    /\ rev \in BOOLEAN
    /\ \E readable \in SUBSET InFiles :
         wavstore = [p \in readable |->
                        [fs |-> 1, dtype |-> "int16", samples |-> <<Whole(1)>>]]
    /\ fsdirs = {} /\ fsfiles = {}
    /\ input_dir = INPUT_DB /\ output_dir = OUTPUT_DB
    /\ wavfiles = <<>> /\ pcm = "start" /\ idx = 0 /\ slept = 0
    /\ script = <<>>
    /\ NoFrame

CallNext == Call \/ PlayAndRec
MainNext == GetWavfiles \/ For \/ Sleep \/ MainCall \/ PlayAndRec \/ Returned \/ Abort

SpecSignal == SignalInit /\ [][CallNext]_vars
SpecWriter == WriterInit /\ [][CallNext]_vars
SpecMain   == MainInit /\ [][MainNext]_vars

----------------------------------------------------------------------------
(* Properties of get_wavfiles, under SpecWalk.                             *)

RootNames(p, n)  == SubSeq(Components(p), 1, n)
BelowRoot(p, n)  == SubSeq(Components(p), n + 1, Len(Components(p)))

\* C3: every pair's output path is its input path with only the leading
\* input root replaced by the output root: the output file lies under
\* output_dir, at the relative path the input file has under input_dir.
C3_OutputMirrorsInput ==
    pcm = "walked" =>
        \A i \in 1..Len(wavfiles) :
            LET ni == Len(Components(input_dir))
                no == Len(Components(output_dir))
            IN  /\ RootNames(wavfiles[i][2], no) = Components(output_dir)
                /\ BelowRoot(wavfiles[i][2], no) = BelowRoot(wavfiles[i][1], ni)

RECURSIVE SlashJoined(_)
SlashJoined(names) ==
    IF Len(names) = 1 THEN names[1]
    ELSE names[1] \o <<"/">> \o SlashJoined(Tail(names))

HasWavSuffix(name) ==
    \E n \in 0..Len(name) :
        SubSeq(name, n + 1, Len(name)) \in {<<".", "w", "a", "v">>, <<".", "W", "A", "V">>}

WavFilesOfTree ==
    {SlashJoined(<<input_dir>> \o f[1] \o <<f[2]>>) : f \in {g \in treeFiles : HasWavSuffix(g[2])}}

\* C4: get_wavfiles returns exactly one pair for each file, at any depth,
\* whose name ends in .wav or .WAV, and no pair for any other file.
C4_ExactlyTheWavFiles ==
    pcm = "walked" =>
        /\ {wavfiles[i][1] : i \in 1..Len(wavfiles)} = WavFilesOfTree
        /\ Len(wavfiles) = Cardinality(WavFilesOfTree)

\* a tree with a .wav file two directories down, another file whose name
\* only resembles one, and a list that holds the first
C4_Witness ==
    /\ pcm = "walked"
    /\ \E f \in treeFiles : Len(f[1]) = 2 /\ HasWavSuffix(f[2])
                            /\ SlashJoined(<<input_dir>> \o f[1] \o <<f[2]>>)
                                 \in {wavfiles[i][1] : i \in 1..Len(wavfiles)}
    /\ \E f \in treeFiles : ~HasWavSuffix(f[2])
    /\ Len(wavfiles) = 1

\* C9: when get_wavfiles has returned, output_dir exists and holds a copy of
\* the folder structure of input_dir.
C9_OutputTreeCreated ==
    pcm = "walked" =>
        /\ Components(output_dir) \in fsdirs
        /\ \A d \in treeDirs : Components(output_dir) \o d \in fsdirs

----------------------------------------------------------------------------
(* Properties of one call of play_and_rec, under SpecSignal.               *)

PastNormalise == {"l29", "l30", "l31", "l35", "l38", "l40", "l43", "returned"}
PastPlayRec   == {"l31", "l35", "l38", "l40", "l43", "returned"}
PastTrim      == {"l35", "l38", "l40", "l43", "returned"}
PastWrite     == {"l40", "l43", "returned"}

InputSamples == wavstore[args.pb_wav_fname].samples

\* C1: with normalise=True and an input whose peak is not zero, the largest
\* absolute sample after the normalisation is 0.8 (4/5).
C1_PeakIsFourFifths ==
    (pc \in PastNormalise /\ args.normalise
        /\ \E i \in 1..Len(InputSamples) : InputSamples[i].num # 0) =>
        /\ \A i \in 1..Len(pb_samples) :
              pb_samples[i].den > 0 /\ 5 * Abs(pb_samples[i].num) <= 4 * pb_samples[i].den
        /\ \E i \in 1..Len(pb_samples) :
              5 * Abs(pb_samples[i].num) = 4 * pb_samples[i].den

ExceedsNoiseFloor(x) == Abs(x.num) * 32768 > 3 * x.den

\* k (0-based) is the index of the first sample of raw above the noise
\* floor, or 0 when there is none
FirstAbove(raw, k) ==
    /\ \A j \in 1..k : ~ExceedsNoiseFloor(raw[j])
    /\ \/ k < Len(raw) /\ ExceedsNoiseFloor(raw[k + 1])
       \/ k = 0 /\ \A j \in 1..Len(raw) : ~ExceedsNoiseFloor(raw[j])

From(raw, k) == [i \in 1..(Len(raw) - k) |-> raw[i + k]]

Raw == played[Len(played)].recorded

\* C2: with rm_latency=True, what play_and_rec keeps, writes and returns is
\* the recording from index k on, k the index of the first sample strictly
\* above eps = 3/2^15, or 0 when no sample is: Len(recording) - k samples,
\* in order.
C2_TrimmedFromFirstAboveEps ==
    (args # <<>> /\ args.rm_latency) =>
        \E k \in 0..(IF pc \in PastTrim THEN Len(Raw) ELSE 0) :
            /\ pc \in PastTrim =>
                   /\ FirstAbove(Raw, k)
                   /\ rec_samples = From(Raw, k)
                   /\ Len(rec_samples) = Len(Raw) - k
            /\ pc \in PastWrite => wrote[Len(wrote)].data = From(Raw, k)
            /\ pc = "returned" => ret[1] = From(Raw, k)

\* a recording at the noise floor, then above it: one sample is cut, the
\* rest written and returned
C2_Witness ==
    /\ pc = "returned" /\ args.rm_latency
    /\ Len(Raw) >= 3
    /\ Raw[1] = [num |-> 3, den |-> 32768]
    /\ Raw[2] = [num |-> -4, den |-> 32768]
    /\ Len(ret[1]) = Len(Raw) - 1
    /\ wrote[1].data = ret[1]

\* C5: play_and_rec returns (original samples, recorded samples, sampling
\* rate), whatever the flags.
C5_ReturnsOriginalRecordedRate ==
    pc = "returned" => ret[1] = pb_samples /\ ret[2] = rec_samples /\ ret[3] = fs

IsZero(x) == x.num = 0 /\ x.den > 0

\* n is 0.5 * f rounded to the nearest integer, a half to the even neighbour
IsRoundedHalf(n, f) ==
    /\ 2 * n - f \in {-1, 0, 1}
    /\ 2 * n # f => n % 2 = 0

IsPaddedPlayback(buf) ==
    /\ IsRoundedHalf(Len(buf) - Len(pb_samples), fs)
    /\ \A i \in 1..Len(pb_samples) : buf[i] = pb_samples[i]
    /\ \A i \in (Len(pb_samples) + 1)..Len(buf) : IsZero(buf[i])

\* C8: the buffer passed to the duplex call has length L + round(0.5*fs):
\* the L playback samples (normalised or not) in order, then zeros.
C8_PaddedWithHalfASecond ==
    /\ pc = "l30" => IsPaddedPlayback(pb_samples_padded)
    /\ pc \in PastPlayRec =>
           /\ IsPaddedPlayback(played[Len(played)].data)
           /\ played[Len(played)].fs = fs
           /\ Len(Raw) = Len(played[Len(played)].data)

\* two normalised samples at 3 Hz: 1.5 rounds to 2 samples of silence
C8_Witness ==
    /\ pc = "l31" /\ args.normalise
    /\ fs = 3 /\ Len(pb_samples) = 2
    /\ Len(played[1].data) = 4
    /\ pb_samples[1].num # 0

----------------------------------------------------------------------------
(* Properties of the writer step, under SpecWriter.                        *)

\* C6: for a nested, an existing or a bare output path the writer step
\* ends with every ancestor directory of the path existing and raises no
\* error, also on a second call under the same tree.
C6_DirectoriesEnsuredWithoutError ==
    /\ pc = "error" => err.line # 37
    /\ pc = "l38" =>
           Prefixes(Components(Dirname(args.rec_wav_fname))) \subseteq fsdirs

\* C7: the file written has the sampling rate and the sample encoding of the
\* input file.
C7_SameFormatAsInput ==
    \A k \in 1..Len(wrote) :
        /\ wrote[k].rate = wavstore[P_WAV].fs
        /\ wrote[k].dtype = wavstore[P_WAV].dtype

----------------------------------------------------------------------------
(* Properties of the batch run, under SpecMain.                            *)

\* C10: the pairs are processed one at a time in list order, each after a
\* sleep; a failure ends the run with nothing written for the failing pair,
\* nothing played, recorded or written for a later one, and the earlier
\* outputs in place.
C10_BatchStopsAtFirstFailure ==
    LET started == idx + (IF pcm \in {"l84", "in_call", "aborted"} THEN 1 ELSE 0)
    IN  /\ slept = started
        /\ Len(played) <= started /\ idx <= Len(played)
        /\ Len(wrote) <= started /\ idx <= Len(wrote)
        /\ \A k \in 1..Len(wrote) :
              /\ wrote[k].filename = wavfiles[k][2]
              /\ Components(wavfiles[k][2]) \in fsfiles
        /\ Cardinality(fsfiles) = Len(wrote)
        /\ pcm = "aborted" =>
              /\ idx < Len(wavfiles)
              /\ Len(wrote) = idx
              /\ Components(wavfiles[idx + 1][2]) \notin fsfiles
              /\ ~ENABLED MainNext

\* the second pair fails after the first was written: the run is over, with
\* one output
C10_Witness ==
    /\ pcm = "aborted" /\ idx = 1 /\ Len(wavfiles) = 2
    /\ Len(wrote) = 1 /\ slept = 2
    /\ err.line = 30

====
